---- MODULE Spec2Model ----
(***************************************************************************)
(* Model of backend_app.py: a Flask application with one endpoint,         *)
(* POST /chat, that forwards the request's 'message' to the Gemini API     *)
(* and returns the generated text.                                         *)
(*                                                                         *)
(* JSON values are records with a type tag.  Python expressions that may   *)
(* raise are evaluated to a record holding either a value or the class and *)
(* text of the exception raised.  The server keeps no state of its own;    *)
(* the model records, per inbound request, the request, the outbound calls *)
(* made while handling it, the vendor outcomes consumed and the answer.    *)
(***************************************************************************)
EXTENDS Integers, Sequences, FiniteSets, TLC

VARIABLES GEMINI_API_KEY, response_json_raises, exchanges

vars == <<GEMINI_API_KEY, response_json_raises, exchanges>>

\* Number of inbound requests a behaviour handles.
MaxRequests == 2

----------------------------------------------------------------------------
\* JSON values (what request.get_json() and response.json() produce).

JNull    == [t |-> "null", s |-> "", n |-> 0, a |-> <<>>, o |-> <<>>]
JStr(v)  == [t |-> "str",  s |-> v,  n |-> 0, a |-> <<>>, o |-> <<>>]
JNum(v)  == [t |-> "num",  s |-> "", n |-> v, a |-> <<>>, o |-> <<>>]
JBool(b) == [t |-> "bool", s |-> "", n |-> IF b THEN 1 ELSE 0, a |-> <<>>, o |-> <<>>]
JArr(v)  == [t |-> "arr",  s |-> "", n |-> 0, a |-> v,    o |-> <<>>]
JObj(v)  == [t |-> "obj",  s |-> "", n |-> 0, a |-> <<>>, o |-> v]

\* Result of evaluating a Python expression: a value, or an exception.
Ok(v)       == [exc |-> "", msg |-> "", val |-> v]
Raise(c, m) == [exc |-> c,  msg |-> m,  val |-> JNull]

\* r, then Op applied to its value unless r raised.
Then(r, Op(_)) == IF r.exc # "" THEN r ELSE Op(r.val)

\* Python's bool(v).
PyTruth(v) ==
  CASE v.t = "null" -> FALSE
    [] v.t = "str"  -> v.s # ""
    [] v.t = "num"  -> v.n # 0
    [] v.t = "bool" -> v.n # 0
    [] v.t = "arr"  -> Len(v.a) > 0
    [] v.t = "obj"  -> DOMAIN v.o # {}

\* type(v).__name__
PyTypeName(v) ==
  CASE v.t = "null" -> "NoneType"
    [] v.t = "str"  -> "str"
    [] v.t = "num"  -> "int"
    [] v.t = "bool" -> "bool"
    [] v.t = "arr"  -> "list"
    [] v.t = "obj"  -> "dict"

\* k is a substring of s.
Substring(k, s) ==
  \E i \in 1..(Len(s) - Len(k) + 1) : SubSeq(s, i, i + Len(k) - 1) = k

\* Python's  key in v  for a string key.
PyIn(key, v) ==
  CASE v.t = "obj" -> Ok(JBool(key \in DOMAIN v.o))
    [] v.t = "arr" -> Ok(JBool(\E i \in DOMAIN v.a : v.a[i] = JStr(key)))
    [] v.t = "str" -> Ok(JBool(Substring(key, v.s)))
    [] OTHER -> Raise("TypeError",
                  "argument of type '" \o PyTypeName(v) \o "' is not iterable")

\* Python's  v[key]  for a string key.
PyGetItem(v, key) ==
  CASE v.t = "obj" -> IF key \in DOMAIN v.o THEN Ok(v.o[key])
                      ELSE Raise("KeyError", "'" \o key \o "'")
    [] v.t = "arr" -> Raise("TypeError",
                        "list indices must be integers or slices, not str")
    [] v.t = "str" -> Raise("TypeError", "string indices must be integers")
    [] OTHER -> Raise("TypeError",
                  "'" \o PyTypeName(v) \o "' object is not subscriptable")

\* Python's  v[0].
PyGetFirst(v) ==
  CASE v.t = "arr" -> IF Len(v.a) > 0 THEN Ok(v.a[1])
                      ELSE Raise("IndexError", "list index out of range")
    [] v.t = "str" -> IF Len(v.s) > 0 THEN Ok(JStr(SubSeq(v.s, 1, 1)))
                      ELSE Raise("IndexError", "string index out of range")
    [] v.t = "obj" -> Raise("KeyError", "0")
    [] OTHER -> Raise("TypeError",
                  "'" \o PyTypeName(v) \o "' object is not subscriptable")

\* Python's  len(v) > 0.
PyLenPositive(v) ==
  CASE v.t = "arr" -> Ok(JBool(Len(v.a) > 0))
    [] v.t = "str" -> Ok(JBool(Len(v.s) > 0))
    [] v.t = "obj" -> Ok(JBool(DOMAIN v.o # {}))
    [] OTHER -> Raise("TypeError",
                  "object of type '" \o PyTypeName(v) \o "' has no len()")

\* Python's  a and b  used as a condition; b is evaluated only if a is true.
AndAlso(a, b) == IF a.exc # "" THEN a ELSE IF ~PyTruth(a.val) THEN a ELSE b

\* Classes an exception of class c is an instance of.
Bases(c) ==
  CASE c = "ConnectionError" -> {"ConnectionError", "RequestException", "Exception"}
    [] c = "Timeout"         -> {"Timeout", "RequestException", "Exception"}
    [] c = "HTTPError"       -> {"HTTPError", "RequestException", "Exception"}
    [] c = "requests.exceptions.JSONDecodeError" ->
         {"requests.exceptions.JSONDecodeError", "InvalidJSONError",
          "RequestException", "json.JSONDecodeError", "ValueError", "Exception"}
    [] c = "json.JSONDecodeError" ->
         {"json.JSONDecodeError", "ValueError", "Exception"}
    [] OTHER -> {c, "Exception"}

----------------------------------------------------------------------------
\* Inputs.

Object1(k, v) == JObj([x \in {k} |-> v])

\* Values of the request's 'message' field.
Messages == {JNull, JStr(""), JNum(0), JStr("hi"), JStr("yo"), JNum(5)}

\* Inbound requests: is_json is the content-type test, parsable tells
\* whether the body text is valid JSON, data is the value it parses to.
Requests ==
  {[is_json |-> FALSE, parsable |-> FALSE, data |-> JNull],
   [is_json |-> FALSE, parsable |-> TRUE,  data |-> Object1("message", JStr("hi"))],
   [is_json |-> TRUE,  parsable |-> FALSE, data |-> JNull]}
  \cup
  {[is_json |-> TRUE, parsable |-> TRUE, data |-> d] :
     d \in {JNull, JStr("message"), JArr(<<JStr("message")>>), JObj(<<>>),
            Object1("text", JStr("hi"))}
           \cup {Object1("message", m) : m \in Messages}}

\* A vendor reply body with candidates[0].content.parts = parts.
WithParts(parts) ==
  Object1("candidates", JArr(<<Object1("content", Object1("parts", parts))>>))

\* JSON bodies the vendor may answer with.
VendorBodies ==
  {WithParts(JArr(<<Object1("text", JStr("Hello"))>>)),
   WithParts(JArr(<<Object1("text", JStr(""))>>)),
   WithParts(JArr(<<Object1("text", JStr("Bye")), Object1("text", JStr("x"))>>)),
   WithParts(JArr(<<JObj(<<>>)>>)),
   WithParts(JArr(<<>>)),
   Object1("candidates", JArr(<<Object1("content", JObj(<<>>))>>)),
   Object1("candidates", JArr(<<Object1("finishReason", JStr("SAFETY"))>>)),
   Object1("candidates", JArr(<<>>)),
   Object1("candidates", JNull),
   Object1("promptFeedback", JStr("blocked")),
   JObj(<<>>),
   JNull,
   JNum(5),
   JStr("no candidates")}

\* What the vendor does with one outbound call: the transport raises, or an
\* HTTP response with a status and a body arrives.
VendorOutcomes ==
  {[raises |-> "ConnectionError", msg |-> "Connection refused",
    status_code |-> 0, parsable |-> FALSE, json |-> JNull],
   [raises |-> "Timeout", msg |-> "Read timed out",
    status_code |-> 0, parsable |-> FALSE, json |-> JNull],
   [raises |-> "", msg |-> "", status_code |-> 404, parsable |-> TRUE,
    json |-> Object1("error", JStr("not found"))],
   [raises |-> "", msg |-> "", status_code |-> 503, parsable |-> FALSE,
    json |-> JNull],
   [raises |-> "", msg |-> "", status_code |-> 200, parsable |-> FALSE,
    json |-> JNull]}
  \cup
  {[raises |-> "", msg |-> "", status_code |-> 200, parsable |-> TRUE,
    json |-> b] : b \in VendorBodies}

----------------------------------------------------------------------------
\* get_gemini_response

GEMINI_API_URL ==
  "https://generativelanguage.googleapis.com/v1beta/models/gemini-2.0-flash:generateContent"

\* not GEMINI_API_KEY, with a key that is None whenever it is not a string
KeyIsNone(key) == key.t = "null"

\* not GEMINI_API_KEY
KeyMissing(key) == ~PyTruth(key)

headers == [x \in {"Content-Type"} |-> "application/json"]

params == [key |-> GEMINI_API_KEY.s]

\* a payload whose entry has the role of the model
payload_model_role(prompt) ==
  Object1("contents",
    JArr(<<JObj([role |-> JStr("model"),
                 parts |-> JArr(<<Object1("text", prompt)>>)])>>))

payload(prompt) ==
  Object1("contents",
    JArr(<<JObj([role |-> JStr("user"),
                 parts |-> JArr(<<Object1("text", prompt)>>)])>>))

\* The calls requests.post puts on the wire, here with one retry.
requests_post_retry(url, hdrs, prms, json) ==
  <<[url |-> url, headers |-> hdrs, params |-> prms, json |-> json],
    [url |-> url, headers |-> hdrs, params |-> prms, json |-> json]>>

\* The calls requests.post puts on the wire.
requests_post(url, hdrs, prms, json) ==
  <<[url |-> url, headers |-> hdrs, params |-> prms, json |-> json]>>

\* response.raise_for_status()
raise_for_status(vendor) ==
  IF vendor.status_code >= 400 /\ vendor.status_code < 600
  THEN Raise("HTTPError",
         ToString(vendor.status_code) \o
         (IF vendor.status_code < 500 THEN " Client Error" ELSE " Server Error"))
  ELSE Ok(JNull)

\* response.json(); the class raised for an unparsable body is the one the
\* installed requests library raises.
response_json(vendor) ==
  IF vendor.parsable THEN Ok(vendor.json)
  ELSE Raise(response_json_raises, "Expecting value: line 1 column 1 (char 0)")

candidates(result) == PyGetItem(result, "candidates")
candidate0(result) == Then(candidates(result), PyGetFirst)
content(result)    == Then(candidate0(result), LAMBDA v : PyGetItem(v, "content"))
parts(result)      == Then(content(result), LAMBDA v : PyGetItem(v, "parts"))
part0(result)      == Then(parts(result), PyGetFirst)

\* the condition of the if statement, its operands evaluated left to right
structure_ok(result) ==
  AndAlso(Ok(result),
  AndAlso(PyIn("candidates", result),
  AndAlso(Then(candidates(result), PyLenPositive),
  AndAlso(Then(candidate0(result), LAMBDA v : PyIn("content", v)),
  AndAlso(Then(content(result), LAMBDA v : PyIn("parts", v)),
          Then(parts(result), PyLenPositive))))))

\* the first part itself, returned in place of its text
generated_text_part(result) == part0(result)

\* result["candidates"][0]["content"]["parts"][0]["text"]
generated_text(result) == Then(part0(result), LAMBDA v : PyGetItem(v, "text"))

\* the else branch, returning the debug line it prints
unexpected_structure_debug(result) ==
  JStr("DEBUG: Unexpected API response structure")

\* the else branch
unexpected_structure(result) ==
  JStr("Sorry, I couldn't get a valid response from the AI. Please try again.")

extract_text(result) ==
  LET c == structure_ok(result) IN
    IF c.exc # "" THEN c
    ELSE IF PyTruth(c.val) THEN generated_text(result)
    ELSE Ok(unexpected_structure(result))

\* the body of the try statement
try_block(vendor) ==
  IF vendor.raises # "" THEN Raise(vendor.raises, vendor.msg)
  ELSE LET st == raise_for_status(vendor) IN
    IF st.exc # "" THEN st
    ELSE Then(response_json(vendor), extract_text)

\* the except clauses without the closing  except Exception
except_clauses_no_catch_all(r) ==
  IF r.exc = "" THEN r
  ELSE IF "RequestException" \in Bases(r.exc)
  THEN Ok(JStr("An error occurred while connecting to the AI service: " \o r.msg))
  ELSE IF "json.JSONDecodeError" \in Bases(r.exc)
  THEN Ok(JStr("An error occurred while processing the AI's response."))
  ELSE r

\* the except clauses, tried in order
except_clauses(r) ==
  IF r.exc = "" THEN r
  ELSE IF "RequestException" \in Bases(r.exc)
  THEN Ok(JStr("An error occurred while connecting to the AI service: " \o r.msg))
  ELSE IF "json.JSONDecodeError" \in Bases(r.exc)
  THEN Ok(JStr("An error occurred while processing the AI's response."))
  ELSE Ok(JStr("An unexpected error occurred: " \o r.msg))

\* ret is what the function returns (or the exception that leaves it), calls
\* the outbound calls it made, replies the vendor outcomes it consumed.
get_gemini_response(prompt, vendor) ==
  IF KeyMissing(GEMINI_API_KEY)
  THEN [ret |-> Ok(JStr("Error: Backend configuration issue. Gemini API Key is missing.")),
        calls |-> <<>>, replies |-> <<>>]
  ELSE [ret |-> except_clauses(try_block(vendor)),
        calls |-> requests_post(GEMINI_API_URL, headers, params, payload(prompt)),
        replies |-> <<vendor>>]

----------------------------------------------------------------------------
\* chat

jsonify(obj, status) ==
  [status |-> status, mimetype |-> "application/json", body |-> obj]

\* The answer Flask gives when an exception leaves the view function.
framework_error(status) ==
  [status |-> status, mimetype |-> "text/html", body |-> JNull]

\* a content-type test that lets every request through
is_json_always(request) == TRUE

\* request.is_json
is_json(request) == request.is_json

\* request.get_json(): raises BadRequest when the body does not parse
get_json(request) ==
  IF request.parsable THEN Ok(request.data)
  ELSE Raise("BadRequest", "Failed to decode JSON object")

\* data.get('message')
data_get_message(data) ==
  IF data.t = "obj"
  THEN Ok(IF "message" \in DOMAIN data.o THEN data.o["message"] ELSE JNull)
  ELSE Raise("AttributeError",
         "'" \o PyTypeName(data) \o "' object has no attribute 'get'")

Exchange(request, response, read_message, calls, replies) ==
  [request |-> request, response |-> response, read_message |-> read_message,
   calls |-> calls, replies |-> replies]

chat(request, vendor) ==
  IF ~is_json(request)
  THEN Exchange(request,
         jsonify(Object1("error", JStr("Request must be JSON")), 400),
         FALSE, <<>>, <<>>)
  ELSE LET data == get_json(request) IN
    IF data.exc # ""
    THEN Exchange(request, framework_error(400), FALSE, <<>>, <<>>)
    ELSE LET user_message == data_get_message(data.val) IN
      IF user_message.exc # ""
      THEN Exchange(request, framework_error(500), TRUE, <<>>, <<>>)
      ELSE IF ~PyTruth(user_message.val)
      THEN Exchange(request,
             jsonify(Object1("error", JStr("Missing 'message' in request body")), 400),
             TRUE, <<>>, <<>>)
      ELSE LET ai_response == get_gemini_response(user_message.val, vendor) IN
        IF ai_response.ret.exc # ""
        THEN Exchange(request, framework_error(500), TRUE,
               ai_response.calls, ai_response.replies)
        ELSE Exchange(request,
               jsonify(Object1("response", ai_response.ret.val), 200), TRUE,
               ai_response.calls, ai_response.replies)

----------------------------------------------------------------------------
\* The server: the configuration is read once at import; each inbound
\* request is handled by chat.

Init ==
  /\ GEMINI_API_KEY \in {JNull, JStr(""), JStr("secret")}
  /\ response_json_raises \in
       {"requests.exceptions.JSONDecodeError", "json.JSONDecodeError"}
  /\ exchanges = <<>>

Chat(request, vendor) ==
  /\ Len(exchanges) < MaxRequests
  /\ exchanges' = Append(exchanges, chat(request, vendor))
  /\ UNCHANGED <<GEMINI_API_KEY, response_json_raises>>

Next == \E request \in Requests, vendor \in VendorOutcomes : Chat(request, vendor)

Spec == Init /\ [][Next]_vars

----------------------------------------------------------------------------
\* Vocabulary of the properties, stated on the inputs and the answers.

JsonAnswer(status, key, value) ==
  [status |-> status, mimetype |-> "application/json",
   body |-> [t |-> "obj", s |-> "", n |-> 0, a |-> <<>>,
             o |-> [x \in {key} |-> value]]]

StringValue(str) == [t |-> "str", s |-> str, n |-> 0, a |-> <<>>, o |-> <<>>]

\* The request parses to a JSON object.
BodyIsObject(req) == req.parsable /\ req.data.t = "obj"

\* The value is None, empty or zero.
Falsy(m) ==
  \/ m.t = "null"
  \/ m.t = "str" /\ m.s = ""
  \/ m.t \in {"num", "bool"} /\ m.n = 0
  \/ m.t = "arr" /\ m.a = <<>>
  \/ m.t = "obj" /\ DOMAIN m.o = {}

\* The request passes both validation checks of chat.
PassesValidation(req) ==
  /\ req.is_json
  /\ BodyIsObject(req)
  /\ "message" \in DOMAIN req.data.o
  /\ ~Falsy(req.data.o["message"])

KeyConfigured == GEMINI_API_KEY.t = "str" /\ GEMINI_API_KEY.s # ""

\* The vendor answered with a success status and a body that parses.
ParsedSuccess(reply) ==
  reply.raises = "" /\ reply.status_code \in 200..299 /\ reply.parsable

\* The parsed body contains candidates[0].content.parts[0].text.
HasText(j) ==
  /\ j.t = "obj" /\ "candidates" \in DOMAIN j.o
  /\ j.o["candidates"].t = "arr" /\ Len(j.o["candidates"].a) >= 1
  /\ LET c == j.o["candidates"].a[1] IN
       /\ c.t = "obj" /\ "content" \in DOMAIN c.o
       /\ c.o["content"].t = "obj" /\ "parts" \in DOMAIN c.o["content"].o
       /\ LET ps == c.o["content"].o["parts"] IN
            /\ ps.t = "arr" /\ Len(ps.a) >= 1
            /\ ps.a[1].t = "obj" /\ "text" \in DOMAIN ps.a[1].o

TextOf(j) == j.o["candidates"].a[1].o["content"].o["parts"].a[1].o["text"]

\* The parsed body is an object in which 'candidates' is missing or an empty
\* list, or its first entry has no 'content', or the content's 'parts' is
\* missing or an empty list, or the first part has no 'text'.
LacksTextAsListed(j) ==
  /\ j.t = "obj"
  /\ \/ "candidates" \notin DOMAIN j.o
     \/ /\ j.o["candidates"].t = "arr"
        /\ \/ j.o["candidates"].a = <<>>
           \/ LET c == j.o["candidates"].a[1] IN
                /\ c.t = "obj"
                /\ \/ "content" \notin DOMAIN c.o
                   \/ /\ c.o["content"].t = "obj"
                      /\ \/ "parts" \notin DOMAIN c.o["content"].o
                         \/ LET ps == c.o["content"].o["parts"] IN
                              /\ ps.t = "arr"
                              /\ \/ ps.a = <<>>
                                 \/ /\ ps.a[1].t = "obj"
                                    /\ "text" \notin DOMAIN ps.a[1].o

HasPrefix(str, prefix) ==
  Len(str) >= Len(prefix) /\ SubSeq(str, 1, Len(prefix)) = prefix

SorryString ==
  "Sorry, I couldn't get a valid response from the AI. Please try again."

ProcessingString == "An error occurred while processing the AI's response."

ConnectingPrefix == "An error occurred while connecting to the AI service: "

UnexpectedPrefix == "An unexpected error occurred: "

KeyMissingString ==
  "Error: Backend configuration issue. Gemini API Key is missing."

MissingMessageString == "Missing 'message' in request body"

\* The exchange called the vendor once and got a parsed success reply.
GotParsedReply(e) == Len(e.replies) = 1 /\ ParsedSuccess(e.replies[1])

----------------------------------------------------------------------------
\* C1: a valid request, with the key configured and a vendor reply that
\* contains candidates[0].content.parts[0].text, is answered 200 with
\* {"response": t}, t being exactly that text.
C1_UnwrappedText ==
  \A i \in DOMAIN exchanges : LET e == exchanges[i] IN
    (PassesValidation(e.request) /\ KeyConfigured) =>
      /\ Len(e.replies) = 1
      /\ (ParsedSuccess(e.replies[1]) /\ HasText(e.replies[1].json)) =>
           e.response = JsonAnswer(200, "response", TextOf(e.replies[1].json))

C1_Witness ==
  \E i \in DOMAIN exchanges : LET e == exchanges[i] IN
    /\ PassesValidation(e.request) /\ KeyConfigured
    /\ GotParsedReply(e) /\ HasText(e.replies[1].json)
    /\ TextOf(e.replies[1].json) = StringValue("Hello")
    /\ e.response.status = 200

\* C2 (as claimed): a JSON request that supplies no 'message' (absent, null,
\* empty, or a body that is not a JSON object) is answered 400 with
\* {"error": "Missing 'message' in request body"} and no outbound call.
C2_MissingMessage400 ==
  \A i \in DOMAIN exchanges : LET e == exchanges[i] IN
    (e.request.is_json /\ e.request.parsable /\ ~PassesValidation(e.request)) =>
      /\ e.response = JsonAnswer(400, "error", StringValue(MissingMessageString))
      /\ e.calls = <<>>

\* C3: a request that is not JSON is answered 400 with
\* {"error": "Request must be JSON"}; 'message' is not read and no outbound
\* call is made.
C3_NotJson400 ==
  \A i \in DOMAIN exchanges : LET e == exchanges[i] IN
    ~e.request.is_json =>
      /\ e.response = JsonAnswer(400, "error", StringValue("Request must be JSON"))
      /\ ~e.read_message
      /\ e.calls = <<>>

C3_Witness ==
  \E i \in DOMAIN exchanges : LET e == exchanges[i] IN
    /\ ~e.request.is_json /\ BodyIsObject(e.request)
    /\ "message" \in DOMAIN e.request.data.o
    /\ e.response.status = 400

\* C4 (as claimed): every inbound request causes exactly one outbound call.
C4_ExactlyOneCall ==
  \A i \in DOMAIN exchanges : Len(exchanges[i].calls) = 1

\* C4 (amended): an inbound request causes at most one outbound call, and
\* exactly one precisely when it passes both validation checks and the API
\* key is configured; a failed call is not retried.
C4_AtMostOneCall ==
  \A i \in DOMAIN exchanges : LET e == exchanges[i] IN
    /\ Len(e.calls) <= 1
    /\ Len(e.calls) = 1 <=> (PassesValidation(e.request) /\ KeyConfigured)

C4_Witness ==
  \E i \in DOMAIN exchanges : LET e == exchanges[i] IN
    /\ Len(e.replies) = 1 /\ e.replies[1].raises = "ConnectionError"
    /\ Len(e.calls) = 1

\* The three kinds of failure the claim C5 names, told from the inputs.
FailureKind(e) ==
  IF ~PassesValidation(e.request) THEN "missing required input field"
  ELSE IF ~KeyConfigured THEN "API key missing"
  ELSE IF e.replies[1].raises # "" \/ e.replies[1].status_code >= 400
  THEN "vendor API unreachable"
  ELSE "vendor API returned unexpected shape"

\* The exchange forwarded the message and returned the vendor's text.
Succeeded(e) ==
  /\ PassesValidation(e.request) /\ KeyConfigured
  /\ GotParsedReply(e) /\ HasText(e.replies[1].json)

\* C5 (as claimed): every failing outcome is of one of three kinds (vendor
\* unreachable, unexpected shape, missing input field) and what is reported
\* is fixed by the kind alone.
C5_ThreeGenericFailures ==
  \A i \in DOMAIN exchanges : LET e == exchanges[i] IN
    ~Succeeded(e) =>
      /\ FailureKind(e) \in {"vendor API unreachable",
                             "vendor API returned unexpected shape",
                             "missing required input field"}
      /\ \A j \in DOMAIN exchanges :
           (~Succeeded(exchanges[j]) /\ FailureKind(exchanges[j]) = FailureKind(e))
             => exchanges[j].response = e.response

\* C5 (amended): every failing outcome is one of: request not JSON (400,
\* fixed string); body unparsable (400 from the framework); body not an
\* object (500 from the framework); 'message' missing (400, fixed string);
\* API key missing (fixed string); transport error or HTTP error status (the
\* connecting prefix followed by the exception's text); vendor body
\* unparsable (the fixed processing string, or the connecting prefix followed
\* by the exception's text); unexpected shape (the fixed Sorry string, or the
\* unexpected-error prefix followed by the exception's text).
C5_FailureOutcomes ==
  \A i \in DOMAIN exchanges :
    LET e == exchanges[i]
        r == e.request
        a == e.response
        Reports(str) == a = JsonAnswer(200, "response", StringValue(str))
        ReportsPrefix(prefix) ==
          /\ a.status = 200 /\ a.mimetype = "application/json"
          /\ a.body.t = "obj" /\ DOMAIN a.body.o = {"response"}
          /\ a.body.o["response"].t = "str"
          /\ HasPrefix(a.body.o["response"].s, prefix)
    IN ~Succeeded(e) =>
      IF ~r.is_json
      THEN a = JsonAnswer(400, "error", StringValue("Request must be JSON"))
      ELSE IF ~r.parsable THEN a.status = 400 /\ a.mimetype = "text/html"
      ELSE IF r.data.t # "obj" THEN a.status = 500 /\ a.mimetype = "text/html"
      ELSE IF ~PassesValidation(r)
      THEN a = JsonAnswer(400, "error", StringValue(MissingMessageString))
      ELSE IF ~KeyConfigured THEN Reports(KeyMissingString)
      ELSE /\ Len(e.replies) = 1
           /\ LET v == e.replies[1] IN
                IF v.raises # "" THEN Reports(ConnectingPrefix \o v.msg)
                ELSE IF v.status_code >= 400 THEN ReportsPrefix(ConnectingPrefix)
                ELSE IF ~v.parsable
                THEN Reports(ProcessingString) \/ ReportsPrefix(ConnectingPrefix)
                ELSE Reports(SorryString) \/ ReportsPrefix(UnexpectedPrefix)

C5_Witness ==
  \E i, j \in DOMAIN exchanges : LET e == exchanges[i]  f == exchanges[j] IN
    /\ Len(e.replies) = 1 /\ e.replies[1].raises = "Timeout"
    /\ Len(f.replies) = 1 /\ f.replies[1].raises = "ConnectionError"
    /\ e.response.status = 200 /\ f.response.status = 200
    /\ e.response # f.response

\* C6: every outbound call carries {"contents": [{"role": "user", "parts":
\* [{"text": m}]}]} where m is the 'message' of the request being handled.
C6_PayloadShape ==
  \A i \in DOMAIN exchanges : LET e == exchanges[i] IN
    \A k \in DOMAIN e.calls : LET p == e.calls[k].json IN
      /\ p.t = "obj" /\ DOMAIN p.o = {"contents"}
      /\ p.o["contents"].t = "arr" /\ Len(p.o["contents"].a) = 1
      /\ LET c == p.o["contents"].a[1] IN
           /\ c.t = "obj" /\ DOMAIN c.o = {"role", "parts"}
           /\ c.o["role"] = StringValue("user")
           /\ c.o["parts"].t = "arr" /\ Len(c.o["parts"].a) = 1
           /\ c.o["parts"].a[1].t = "obj"
           /\ DOMAIN c.o["parts"].a[1].o = {"text"}
           /\ c.o["parts"].a[1].o["text"] = e.request.data.o["message"]

C6_Witness ==
  /\ Len(exchanges) >= 2
  /\ Len(exchanges[1].calls) = 1 /\ Len(exchanges[2].calls) = 1
  /\ exchanges[1].request.data.o["message"] # exchanges[2].request.data.o["message"]

\* C7 (as claimed): a parsed success reply without
\* candidates[0].content.parts[0].text makes get_gemini_response return the
\* fixed Sorry string.
C7_UnexpectedShapeSorry ==
  \A i \in DOMAIN exchanges : LET e == exchanges[i] IN
    (GotParsedReply(e) /\ LacksTextAsListed(e.replies[1].json)) =>
      e.response = JsonAnswer(200, "response", StringValue(SorryString))

\* C8 (as claimed): a success reply whose body does not parse as JSON makes
\* get_gemini_response return the fixed processing string (the
\* JSONDecodeError clause handles it, not the RequestException clause).
C8_UnparsableBodyProcessing ==
  \A i \in DOMAIN exchanges : LET e == exchanges[i] IN
    (/\ Len(e.replies) = 1 /\ e.replies[1].raises = ""
     /\ e.replies[1].status_code \in 200..299 /\ ~e.replies[1].parsable) =>
      e.response = JsonAnswer(200, "response", StringValue(ProcessingString))

\* C9: with GEMINI_API_KEY unset or empty, get_gemini_response returns the
\* key-missing string and makes no outbound call.
C9_KeyMissingNoCall ==
  \A i \in DOMAIN exchanges : LET e == exchanges[i] IN
    (PassesValidation(e.request) /\ ~KeyConfigured) =>
      /\ e.response = JsonAnswer(200, "response", StringValue(KeyMissingString))
      /\ e.calls = <<>>

C9_Witness ==
  \E i \in DOMAIN exchanges :
    /\ PassesValidation(exchanges[i].request)
    /\ GEMINI_API_KEY = StringValue("")
    /\ exchanges[i].response.status = 200

\* C10: a request that passed both validation checks is answered 200 with a
\* JSON body whose only key is 'response', whatever the vendor call did.
C10_ValidatedAlways200 ==
  \A i \in DOMAIN exchanges : LET e == exchanges[i] IN
    PassesValidation(e.request) =>
      /\ e.response.status = 200
      /\ e.response.mimetype = "application/json"
      /\ e.response.body.t = "obj"
      /\ DOMAIN e.response.body.o = {"response"}

C10_Witness ==
  \E i \in DOMAIN exchanges : LET e == exchanges[i] IN
    /\ PassesValidation(e.request)
    /\ GotParsedReply(e)
    /\ e.replies[1].json.t = "num"
    /\ e.response.status = 200

====
